---- MODULE Spec2Model ----
(***************************************************************************)
(* Remote setup-script executor of github-codespaces-manager.              *)
(*                                                                         *)
(*   CLI : CodespacesManager.execute_remote_setup and                      *)
(*         CodespacesManager.execute_script_in_codespace                   *)
(*         (projects/github-codespaces-manager/codespaces-manager.py)      *)
(*   web : setup_languages (web-app/backend/app/api/languages.py) and      *)
(*         WebGitHubManager.execute_setup_script / run_gh_command          *)
(*         (web-app/backend/app/core/github_manager.py)                    *)
(*                                                                         *)
(* Text is modelled structurally.  A script is the sequence of its lines   *)
(* (the result of str.split on the newline), each line a string; a message *)
(* or a captured stream is a sequence of tokens, white space being the     *)
(* tokens " ", "\t" and "\n".  The pictographs of the Python literals are   *)
(* left out of the line texts; nothing in the code inspects them.          *)
(***************************************************************************)
EXTENDS Integers, Sequences, FiniteSets, TLC

(* ------------------------------ bounds --------------------------------- *)

\* largest value of int(time.time()) the clock reaches
MaxClock == 1

(* --------------------------- text helpers ------------------------------ *)

IsSpace(c) == c \in {" ", "\t", "\n"}

RECURSIVE LStrip(_)
LStrip(s) == IF s = <<>> THEN s
             ELSE IF IsSpace(Head(s)) THEN LStrip(Tail(s)) ELSE s

RECURSIVE RStrip(_)
RStrip(s) == IF s = <<>> THEN s
             ELSE IF IsSpace(s[Len(s)]) THEN RStrip(SubSeq(s, 1, Len(s) - 1)) ELSE s

\* str.strip()
Strip(s) == RStrip(LStrip(s))

\* t occurs in s as a contiguous run (Python: t in s)
Contains(s, t) == \E i \in 1..(Len(s) - Len(t) + 1) : SubSeq(s, i, i + Len(t) - 1) = t

\* "\n".join(parts) followed by split on the newline: the lines of the parts, in order
RECURSIVE Join(_)
Join(parts) == IF parts = <<>> THEN <<>> ELSE Head(parts) \o Join(Tail(parts))

UpperCase == <<"A","B","C","D","E","F","G","H","I","J","K","L","M",
               "N","O","P","Q","R","S","T","U","V","W","X","Y","Z">>
LowerCase == <<"a","b","c","d","e","f","g","h","i","j","k","l","m",
               "n","o","p","q","r","s","t","u","v","w","x","y","z">>

\* str.lower() on one character
LowerChar(c) == IF \E i \in 1..Len(UpperCase) : UpperCase[i] = c
                THEN LowerCase[CHOOSE i \in 1..Len(UpperCase) : UpperCase[i] = c]
                ELSE c

\* operation_name.lower().replace(' ', '_').replace('/', '_')
Prefix(name) == [i \in 1..Len(name) |->
                    LET c == LowerChar(name[i])
                    IN  IF c \in {" ", "/"} THEN "_" ELSE c]

\* f'{prefix}_{int(time.time())}.sh'
ScriptName(name, t) == Prefix(name) \o <<"_", ToString(t), ".sh">>

\* the file the final cleanup command removes
TmpSetupScript == <<"/tmp/setup_script.sh">>

\* heredoc terminator of the transfer command
SCRIPT_EOF == "SCRIPT_EOF"

(* --------------------------- fragment catalog -------------------------- *)

LANGUAGE_SCRIPTS ==
  [ python |-> << "#!/bin/bash",
                  "echo \"Setting up Python environment...\"",
                  "# Python is usually pre-installed, so setup tools",
                  "pip3 install --upgrade pip",
                  "pip3 install poetry black ruff mypy pytest jupyter ipython requests numpy pandas",
                  "echo \"Python environment ready!\"",
                  "" >>,
    nodejs |-> << "#!/bin/bash",
                  "echo \"Setting up Node.js environment...\"",
                  "# Install latest LTS Node.js",
                  "curl -o- https://raw.githubusercontent.com/nvm-sh/nvm/v0.39.0/install.sh | bash",
                  "export NVM_DIR=\"$HOME/.nvm\"",
                  "[ -s \"$NVM_DIR/nvm.sh\" ] && \\. \"$NVM_DIR/nvm.sh\"",
                  "nvm install --lts",
                  "nvm use --lts",
                  "npm install -g typescript eslint prettier @types/node nodemon",
                  "echo \"Node.js environment ready!\"",
                  "" >>,
    rust   |-> << "#!/bin/bash",
                  "echo \"Setting up Rust environment...\"",
                  "curl --proto '=https' --tlsv1.2 -sSf https://sh.rustup.rs | sh -s -- -y",
                  "source $HOME/.cargo/env",
                  "rustup component add clippy rustfmt",
                  "echo \"Rust environment ready!\"",
                  "" >>,
    go     |-> << "#!/bin/bash",
                  "echo \"Setting up Go environment...\"",
                  "GO_VERSION=\"1.21.5\"",
                  "wget https://go.dev/dl/go${GO_VERSION}.linux-amd64.tar.gz",
                  "sudo rm -rf /usr/local/go && sudo tar -C /usr/local -xzf go${GO_VERSION}.linux-amd64.tar.gz",
                  "echo 'export PATH=$PATH:/usr/local/go/bin:$HOME/go/bin' >> ~/.bashrc",
                  "source ~/.bashrc",
                  "rm go${GO_VERSION}.linux-amd64.tar.gz",
                  "echo \"Go environment ready!\"",
                  "" >>,
    java   |-> << "#!/bin/bash",
                  "echo \"Setting up Java environment...\"",
                  "sudo apt update && sudo apt install -y openjdk-17-jdk maven gradle",
                  "echo 'export JAVA_HOME=/usr/lib/jvm/java-17-openjdk-amd64' >> ~/.bashrc",
                  "source ~/.bashrc",
                  "echo \"Java environment ready!\"",
                  "" >>,
    cpp    |-> << "#!/bin/bash",
                  "echo \"Setting up C/C++ environment...\"",
                  "sudo apt update && sudo apt install -y build-essential gdb cmake clang-format",
                  "echo \"C/C++ environment ready!\"",
                  "" >>,
    php    |-> << "#!/bin/bash",
                  "echo \"Setting up PHP environment...\"",
                  "sudo apt update && sudo apt install -y php php-cli php-mbstring php-xml php-curl composer",
                  "echo \"PHP environment ready!\"",
                  "" >>,
    ruby   |-> << "#!/bin/bash",
                  "echo \"Setting up Ruby environment...\"",
                  "sudo apt update && sudo apt install -y ruby ruby-dev bundler",
                  "gem install rails",
                  "echo \"Ruby environment ready!\"",
                  "" >> ]

AI_AGENTS_SCRIPT ==
  << "#!/bin/bash",
     "echo \"Setting up AI Agents...\"",
     "",
     "# Claude CLI",
     "echo \"Setting up Claude CLI...\"",
     "npm install -g @anthropic-ai/claude-cli || {",
     "    echo \"Installing via alternative method...\"",
     "    curl -fsSL https://github.com/anthropics/anthropic-cli/releases/latest/download/install.sh | bash",
     "}",
     "",
     "# Ollama and Qwen",
     "echo \"Setting up Ollama and Qwen...\"",
     "curl -fsSL https://ollama.ai/install.sh | sh",
     "nohup ollama serve > /dev/null 2>&1 &",
     "sleep 10",
     "ollama pull qwen:latest",
     "",
     "# Aliases for both AI agents",
     "echo \"alias cl='claude'\" >> ~/.bashrc",
     "echo \"alias claude-cli='claude'\" >> ~/.bashrc",
     "echo \"alias qw='ollama run qwen'\" >> ~/.bashrc",
     "echo \"alias qwen='ollama run qwen'\" >> ~/.bashrc",
     "echo \"alias chat='ollama run qwen'\" >> ~/.bashrc",
     "",
     "echo \"AI Agents setup complete!\"",
     "echo \"Claude: claude --help or cl --help\"",
     "echo \"Qwen: qw, qwen or ollama run qwen\"",
     "" >>

PROGRAMMING_ALIASES ==
  << "",
     "# Git aliases",
     "alias gst='git status'",
     "alias gco='git checkout'",
     "alias gcb='git checkout -b'",
     "alias gp='git push'",
     "alias gpl='git pull'",
     "alias ga='git add'",
     "alias gc='git commit'",
     "alias gd='git diff'",
     "alias gl='git log --oneline'",
     "",
     "# Directory aliases",
     "alias ll='ls -alF'",
     "alias la='ls -A'",
     "alias l='ls -CF'",
     "alias ..='cd ..'",
     "alias ...='cd ../..'",
     "",
     "# Development aliases",
     "alias py='python3'",
     "alias pip='pip3'",
     "alias code='code .'",
     "alias t='tree'",
     "alias h='htop'",
     "",
     "# Quick commands",
     "alias update='sudo apt update && sudo apt upgrade'",
     "alias install='sudo apt install'",
     "alias search='apt search'",
     "" >>

\* str.upper() on the keys of LANGUAGE_SCRIPTS
Upper(language) ==
  CASE language = "python" -> "PYTHON"
    [] language = "nodejs" -> "NODEJS"
    [] language = "rust"   -> "RUST"
    [] language = "go"     -> "GO"
    [] language = "java"   -> "JAVA"
    [] language = "cpp"    -> "CPP"
    [] language = "php"    -> "PHP"
    [] language = "ruby"   -> "RUBY"

\* f"# {language.upper()} SETUP"
LanguageBanner(language) == "# " \o Upper(language) \o " SETUP"

AIAgentsBanner == "# AI AGENTS SETUP"

AliasesBanner == "# PROGRAMMING ALIASES"

CompletionMarker == "echo 'All language setups completed successfully!'"

(* ------------------------------- state --------------------------------- *)

VARIABLES
  now,            \* int(time.time()) of the wall clock
  files,          \* remote target: file name -> what the file holds
  exe,            \* what this process runs: "cli" (menu), "web" (API operation), "ws" (API sockets)
  pc,             \* position of the current operation
  operation_name, \* operation_name argument of the executor
  script,         \* script argument of the executor (its lines)
  script_name,    \* generated remote file name
  calls,          \* remote-shell commands issued by the current operation, in order
  outcome,        \* terminal outcome the current operation reached, "none" before
  script_exit,    \* how the remote bash run of the script ended: "none", "zero", "nonzero"
  command_failed, \* a command of the script failed on the target during the run
  cli_ret,        \* value execute_script_in_codespace returns: "None", "True", "False"
  console,        \* lines the CLI executor printed for the current operation
  temp_script,    \* local temporary file of the CLI executor: "none", "exists", "deleted"
  request,        \* LanguageSetupRequest of the web operation
  script_parts,   \* setup_languages: parts appended so far, each the lines of one part
  total_steps,    \* setup_languages: total_steps
  current_step,   \* setup_languages: current_step
  lang_idx,       \* setup_languages: index of the next element of request.languages
  progress_sent,  \* notifications handed to websocket_manager, in order
  result,         \* dict returned by execute_setup_script
  response,       \* HTTP outcome of setup_languages
  prev,           \* the operation that finished before the current one started
  active_connections, \* WebSocketManager instance -> self.active_connections
  connection_data,    \* WebSocketManager instance -> keys of self.connection_data
  closed,             \* WebSocket objects whose peer has gone: send_text raises
  ws_pc,              \* WebSocket object -> position of its websocket_endpoint call
  broadcasts          \* task -> its call of broadcast: loop position, locals, history

wsVars == << active_connections, connection_data, closed, ws_pc, broadcasts >>

progVars == << now, files, exe, pc, operation_name, script, script_name, calls, outcome,
               script_exit, command_failed, cli_ret, console, temp_script, request, script_parts,
               total_steps, current_step, lang_idx, progress_sent, result, response,
               prev >>

vars == << progVars, wsVars >>

cliVars == << cli_ret, console, temp_script >>

webVars == << request, script_parts, total_steps, current_step, lang_idx,
              progress_sent, result, response >>

(* ------------------------- environment inputs -------------------------- *)

\* captured standard error of a failing remote command
Stderrs == { << >>, << " ", "E", "\n" >> }

\* standard output of a script whose last command echoed the completion marker
MarkerStdout == << "All", " ", "language", " ", "setups", " ", "completed", " ",
                   "successfully!", "\n" >>

\* standard output of n lines, each ended by a newline
Lines(n) == [ i \in 1..(2 * n) |->
                IF i % 2 = 1 THEN "line" \o ToString((i + 1) \div 2) ELSE "\n" ]

\* line counts of the captured outputs: below, at and above the display threshold
OutputLengths == { 15, 20, 21, 25 }

\* captured standard output of a run that exited zero: the marker line, a number of
\* lines, or a number of lines followed by an empty line
Stdouts == { MarkerStdout } \cup { Lines(n) : n \in OutputLengths }
           \cup { Lines(20) \o << "\n" >> }

\* str(e) of an exception raised while starting the local gh process
ExceptionText == << "[Errno 2] No such file or directory: 'gh'" >>

\* a dict key that is not present
Missing == << "<missing>" >>

\* dict.get(key, default)
Get(value, default) == IF value = Missing THEN default ELSE value

NoRequest == [ languages |-> << >>, include_ai_agents |-> FALSE, include_aliases |-> FALSE ]

NoResult == [ success |-> FALSE, error |-> Missing, output |-> Missing,
              script_name |-> Missing ]

NoResponse == [ status |-> "none", detail |-> Missing, languages_installed |-> << >> ]

NoPrev == [ operation_name |-> << >>, script_name |-> << >>,
            outcome |-> "none", cli_ret |-> "None" ]

(* --------------------------- remote target ----------------------------- *)

Exists(name) == name \in DOMAIN files

Write(name, content) == (name :> content) @@ files

Remove(name) == [ n \in DOMAIN files \ {name} |-> files[n] ]

\* lines a here-document with terminator SCRIPT_EOF delivers to cat
RECURSIVE HeredocBody(_)
HeredocBody(lines) == IF lines = << >> \/ Head(lines) = SCRIPT_EOF THEN << >>
                      ELSE << Head(lines) >> \o HeredocBody(Tail(lines))

\* what a file written from the here-document holds: every line of the script
\* ("full"), only the lines before a terminator line inside it ("cut"), or nothing
Delivered(lines) ==
  CASE HeredocBody(lines) = lines -> "full"
    [] HeredocBody(lines) = << >> -> "empty"
    [] OTHER                      -> "cut"

\* cat > {script_name} << 'SCRIPT_EOF' ... : what the target holds afterwards
TransferEffect(how) ==
  CASE how \in { "ok", "spill" } -> Write(script_name, Delivered(script))
    [] how = "truncated" -> Write(script_name, "empty")
    [] OTHER             -> files

TransferHows == { "ok", "spill", "truncated", "lost", "fail", "raise" }

\* "ok" needs a script the here-document delivers whole; with a terminator line inside
\* the script the remote shell runs the lines after it as commands and ends on the
\* closing SCRIPT_EOF, which is no command ("spill")
TransferPossible(how) ==
  /\ how = "ok" => HeredocBody(script) = script
  /\ how = "spill" => HeredocBody(script) # script

\* exit code 0 of the transfer command
TransferRc0(how) == how \in { "ok", "truncated", "lost" }

\* ls -la {script_name} && wc -l {script_name}
VerifyRc0(conn) == conn = "ok" /\ Exists(script_name)

\* chmod +x {script_name} && bash {script_name} && rm {script_name}
\* run: "zero"/"nonzero" exit of bash, "timeout" (still running when the caller gave up),
\* or the connection failing ("fail") or the local process not starting ("raise")
ExecHows == { "zero", "nonzero", "timeout", "fail", "raise" }

\* the script runs only when chmod found the file; an empty file exits zero
ExecPossible(how) ==
  /\ how \in { "zero", "nonzero", "timeout" } => Exists(script_name)
  /\ how \in { "nonzero", "timeout" } => files[script_name] # "empty"

ExecRc0(how) == how = "zero"

\* what bash writes to standard output when the script in the file exits zero: nothing
\* for an empty file, the marker line when the file holds every line of a script
\* that ends with the echo of the completion marker, any output otherwise
StdoutsOf(content, lines) ==
  CASE content = "empty" -> { << >> }
    [] content = "full" /\ lines # << >> /\ lines[Len(lines)] = CompletionMarker
         -> { MarkerStdout }
    [] OTHER -> Stdouts

\* the lines the remote file holds
Held(content, lines) == IF content = "empty" THEN << >> ELSE HeredocBody(lines)

\* the script opens with the shebang and set -e: bash stops at the first failing command
StrictMode(lines) ==
  Len(lines) >= 2 /\ lines[1] = "#!/bin/bash" /\ lines[2] = "set -e"

\* whether a command of the script failed during a run of bash that ended as given:
\* a non-zero exit is the exit of a failed command; an exit zero under set -e means
\* no command failed; without set -e bash goes on after a failed command and exits
\* with the status of the last one
CommandFailures(how) ==
  CASE how = "nonzero" -> { TRUE }
    [] how = "zero" ->
         LET held == Held(files[script_name], script)
         IN  IF StrictMode(held) \/ Len(held) < 3 THEN { FALSE } ELSE BOOLEAN
    [] OTHER -> { FALSE }

\* the standard output the Execute call can capture
ExecStdouts(how) ==
  IF how = "zero" THEN StdoutsOf(files[script_name], script) ELSE { << >> }

\* variant of ExecEffect: the rm runs whatever the exit status of the script
\* (chmod ... && bash ... ; rm ...)
ExecEffectAlwaysRemoves(how) ==
  IF how \in { "zero", "nonzero" } THEN Remove(script_name) ELSE files

\* what the target holds after the Execute command chain
ExecEffect(how) == IF how = "zero" THEN Remove(script_name) ELSE files

ExecScriptExit(how) == IF how \in { "zero", "nonzero" } THEN how ELSE "none"

\* timeout=600 of the Execute call of the CLI executor, in seconds
ExecTimeout == 600

\* timeout=30 of the cleanup call of the CLI executor, in seconds
CleanupTimeout == 30

\* a call without a timeout argument
NoTimeout == 0

\* one remote-shell command and how it ended: "rc0", "nonzero" (with the captured
\* standard error), "raised" (the local process did not start), "timeout", or "never"
\* (the remote shell does not answer and nothing ends the call)
Call(phase, name, timeout, ended, err) ==
  [ phase |-> phase, file |-> name, timeout |-> timeout, ended |-> ended, stderr |-> err,
    stdout |-> << >> ]

\* the call with the standard output it captured
WithStdout(call, out) == [ call EXCEPT !.stdout = out ]

TransferEnded(how) == CASE how = "raise" -> "raised"
                        [] how \in { "fail", "spill" } -> "nonzero"
                        [] OTHER         -> "rc0"

ExecEnded(how) == CASE how = "raise"   -> "raised"
                    [] how = "interrupt" -> "interrupted"
                    [] how = "timeout" -> "timeout"
                    [] how = "zero"    -> "rc0"
                    [] OTHER           -> "nonzero"

CleanupEnded(how) == CASE how = "ok"   -> "rc0"
                       [] how = "fail" -> "nonzero"
                       [] how = "raise" -> "raised"
                       [] OTHER        -> "timeout"

(* ------------------- WebSocketManager: values ------------------------- *)

\* the WebSocketManager instances: websocket_manager of main.py and of languages.py
Managers == { "main", "languages" }

\* the instance websocket_endpoint registers the observers into
EndpointManager == "main"

\* the instance setup_languages and setup_ai_agents send their updates through
SetupManager == "languages"

\* the WebSocket objects of the clients that open /ws
Sockets == { "w1", "w2" }

\* the calls of broadcast, each made by a task of its own
Tasks == { "t1", "t2" }

\* a task that is not in broadcast
NoBroadcast == [ pc |-> "idle", self |-> EndpointManager, idx |-> 0,
                 disconnected |-> << >>, log |-> << >>, start |-> << >>,
                 observers |-> << >>, shrunk |-> FALSE ]

\* websocket in self.active_connections
InList(list, w) == \E i \in DOMAIN list : list[i] = w

\* list.remove(w): the list without the first occurrence of w
ListRemove(list, w) ==
  LET i == CHOOSE k \in DOMAIN list :
             list[k] = w /\ \A j \in 1..(k - 1) : list[j] # w
  IN  SubSeq(list, 1, i - 1) \o SubSeq(list, i + 1, Len(list))

\* variant of DisconnectActive: the websocket stays in the list
DisconnectActiveKept(list, w) == list

\* disconnect, first statement: if websocket in self.active_connections: remove
DisconnectActive(list, w) == IF InList(list, w) THEN ListRemove(list, w) ELSE list

\* variant of DisconnectData: the entry of connection_data is left behind
DisconnectDataKept(data, w) == data

\* disconnect, second statement: if websocket in self.connection_data: del
DisconnectData(data, w) == data \ { w }

\* for connection in disconnected: self.disconnect(connection)
RECURSIVE CleanupActive(_, _)
CleanupActive(list, disconnected) ==
  IF disconnected = << >> THEN list
  ELSE CleanupActive(DisconnectActive(list, Head(disconnected)), Tail(disconnected))

RECURSIVE CleanupData(_, _)
CleanupData(data, disconnected) ==
  IF disconnected = << >> THEN data
  ELSE CleanupData(DisconnectData(data, Head(disconnected)), Tail(disconnected))

(* ------------------------------- Init ---------------------------------- *)

\* WebSocketManager.__init__ of every instance, no endpoint call, no broadcast
InitWsVars ==
  /\ active_connections = [ m \in Managers |-> << >> ]
  /\ connection_data = [ m \in Managers |-> { } ]
  /\ closed = { }
  /\ ws_pc = [ w \in Sockets |-> "new" ]
  /\ broadcasts = [ t \in Tasks |-> NoBroadcast ]

\* the state of the menu or of the API before its first operation
InitProgram ==
  /\ now = 0
  /\ files = << >>
  /\ pc = "idle"
  /\ operation_name = << >>
  /\ script = << >>
  /\ script_name = << >>
  /\ calls = << >>
  /\ outcome = "none"
  /\ script_exit = "none"
  /\ command_failed = FALSE
  /\ cli_ret = "None"
  /\ console = << >>
  /\ temp_script = "none"
  /\ request = NoRequest
  /\ script_parts = << >>
  /\ total_steps = 0
  /\ current_step = 0
  /\ lang_idx = 0
  /\ progress_sent = << >>
  /\ result = NoResult
  /\ response = NoResponse
  /\ prev = NoPrev

Init ==
  /\ exe \in { "cli", "web" }
  /\ InitProgram
  /\ InitWsVars

\* the operation that has just finished, as the next one sees it
Finished == IF pc = "idle" THEN prev
            ELSE [ operation_name |-> operation_name, script_name |-> script_name,
                   outcome |-> outcome, cli_ret |-> cli_ret ]

\* the wall clock advances
Tick ==
  /\ now < MaxClock
  /\ now' = now + 1
  /\ UNCHANGED wsVars
  /\ UNCHANGED << files, exe, pc, operation_name, script, script_name, calls, outcome,
                  script_exit, command_failed, cliVars, webVars, prev >>

(* ---------------------------- CLI executor ----------------------------- *)

\* operation_name of execute_remote_setup
CustomCommands == << "C","u","s","t","o","m"," ","C","o","m","m","a","n","d","s" >>

\* operation_name of setup_python
PythonSetup == << "P","y","t","h","o","n"," ","S","e","t","u","p" >>

\* {operation_name} of the lines the executor prints
OperationText == IF operation_name = PythonSetup THEN "Python Setup" ELSE "Custom Commands"

\* script of setup_python: a shebang, no set -e
PythonSetupScript ==
  << "#!/bin/bash",
     "echo \"Setting up Python environment...\"",
     "sudo apt update",
     "sudo apt install -y python3 python3-pip python3-venv python3-dev",
     "python3 -m pip install --upgrade pip",
     "pip3 install poetry black ruff mypy pytest jupyter pandas numpy requests flask fastapi",
     "echo \"Python setup complete!\"",
     "" >>

\* the menu is back at its prompt; a session repeats the operation it began with
MenuChoice(name) ==
  pc = "idle" \/ ( pc \in { "done", "cancelled" } /\ operation_name = name )

\* command lines typed at the "Command: " prompt
CommandLists == { << "sudo apt update" >>, << SCRIPT_EOF, "sudo apt update" >> }

\* "#!/bin/bash\nset -e\n\n" + "\n".join(commands)
RemoteSetupScript(commands) == << "#!/bin/bash", "set -e", "" >> \o commands

FailedToCreate(err) == << "Failed to create script: " >> \o err

VerificationFailed(err) == << "Verification failed: " >> \o err

OperationFailed(err) == << OperationText \o " failed!" >> \o
                        (IF err # << >> THEN << "Error:" >> \o err ELSE << >>)

\* str.split('\n')
RECURSIVE Split(_)
Split(s) ==
  IF \A i \in DOMAIN s : s[i] # "\n" THEN << s >>
  ELSE LET i == CHOOSE k \in DOMAIN s : s[k] = "\n" /\ \A j \in 1..(k - 1) : s[j] # "\n"
       IN  << SubSeq(s, 1, i - 1) >> \o Split(SubSeq(s, i + 1, Len(s)))

\* '\n'.join(lines) followed by the newline print adds
RECURSIVE PrintJoined(_)
PrintJoined(lines) ==
  IF lines = << >> THEN << "\n" >>
  ELSE Head(lines) \o << "\n" >> \o (IF Len(lines) = 1 THEN << >> ELSE PrintJoined(Tail(lines)))

\* if len(output_lines) <= 20
DisplayThreshold == 20

\* output_lines[:10]
DisplayHead == 10

\* output_lines[-5:]
DisplayTail == 5

\* f"\n... ({len(output_lines)} total lines) ...\n" as print writes it
ElisionMarker(n) == << "\n", "... (" \o ToString(n) \o " total lines) ...", "\n", "\n" >>

\* variant of Display: the output is printed whole whatever its length
DisplayUntruncated(out) == out

\* what the success branch prints of the captured standard output
Display(out) ==
  LET output_lines == Split(Strip(out))
      n == Len(output_lines)
  IN  IF n <= DisplayThreshold THEN out
      ELSE PrintJoined(SubSeq(output_lines, 1, DisplayHead))
           \o ElisionMarker(n)
           \o PrintJoined(SubSeq(output_lines, n - DisplayTail + 1, n))

OperationCompleted(out) == << OperationText \o " completed successfully!" >> \o
                           (IF out # << >> THEN << "Output:" >> \o Display(out) ELSE << >>)

OperationTimedOut == << OperationText \o " timed out (10 minutes)" >>

ErrorExecuting == << "Error executing " \o OperationText \o ": " >> \o ExceptionText

\* execute_remote_setup up to the first remote command of execute_script_in_codespace
ExecuteRemoteSetup ==
  /\ exe = "cli" /\ MenuChoice(CustomCommands)
  /\ \E commands \in CommandLists : script' = RemoteSetupScript(commands)
  /\ operation_name' = CustomCommands
  /\ temp_script' = "exists"
  /\ script_name' = ScriptName(CustomCommands, now)
  /\ pc' = "transfer"
  /\ calls' = << >>
  /\ outcome' = "none"
  /\ script_exit' = "none"
  /\ command_failed' = FALSE
  /\ cli_ret' = "None"
  /\ console' = << >>
  /\ request' = NoRequest
  /\ script_parts' = << >>
  /\ total_steps' = 0
  /\ current_step' = 0
  /\ lang_idx' = 0
  /\ progress_sent' = << >>
  /\ result' = NoResult
  /\ response' = NoResponse
  /\ prev' = Finished
  /\ UNCHANGED wsVars
  /\ UNCHANGED << now, files, exe >>

\* setup_python from the menu to the first remote call of the executor
SetupPython ==
  /\ exe = "cli" /\ MenuChoice(PythonSetup)
  /\ script' = PythonSetupScript
  /\ operation_name' = PythonSetup
  /\ temp_script' = "exists"
  /\ script_name' = ScriptName(PythonSetup, now)
  /\ pc' = "transfer"
  /\ calls' = << >>
  /\ outcome' = "none"
  /\ script_exit' = "none"
  /\ command_failed' = FALSE
  /\ cli_ret' = "None"
  /\ console' = << >>
  /\ request' = NoRequest
  /\ script_parts' = << >>
  /\ total_steps' = 0
  /\ current_step' = 0
  /\ lang_idx' = 0
  /\ progress_sent' = << >>
  /\ result' = NoResult
  /\ response' = NoResponse
  /\ prev' = Finished
  /\ UNCHANGED wsVars
  /\ UNCHANGED << now, files, exe >>

\* variant of CliAfterTransfer: the result of the Transfer call is not tested
CliAfterTransferUntested(how) == "verify"

\* where the CLI executor goes after the Transfer call
CliAfterTransfer(how) == IF how # "raise" /\ TransferRc0(how) THEN "verify" ELSE "cleanup"

\* subprocess.run(create_cmd) and the test of its return code
CliTransfer ==
  /\ exe = "cli" /\ pc = "transfer"
  /\ \E how \in TransferHows, err \in Stderrs :
       /\ TransferPossible(how)
       /\ how \notin { "fail", "spill" } => err = << >>
       /\ files' = TransferEffect(how)
       /\ calls' = Append(calls, Call("Transfer", script_name, NoTimeout,
                                   TransferEnded(how), err))
       /\ pc' = CliAfterTransfer(how)
       /\ CASE how = "raise" ->
                 /\ console' = Append(console, ErrorExecuting)
                 /\ cli_ret' = "False"
                 /\ outcome' = "Exception"
            [] how # "raise" /\ ~TransferRc0(how) ->
                 /\ console' = Append(console, FailedToCreate(err))
                 /\ cli_ret' = "False"
                 /\ outcome' = "TransferFailed"
            [] OTHER ->
                 /\ console' = Append(console, << "Script created successfully" >>)
                 /\ UNCHANGED << cli_ret, outcome >>
  /\ UNCHANGED wsVars
  /\ UNCHANGED << now, exe, operation_name, script, script_name, script_exit, command_failed,
                  temp_script, webVars, prev >>

\* variant of CliAfterVerify: the return code of the Verify call is not tested
CliAfterVerifyUntested(conn) == "exec"

\* where the CLI executor goes after the Verify call
CliAfterVerify(conn) == IF VerifyRc0(conn) THEN "exec" ELSE "cleanup"

\* subprocess.run(verify_cmd) and the test of its return code
CliVerify ==
  /\ exe = "cli" /\ pc = "verify"
  /\ \E conn \in { "ok", "fail", "raise" }, err \in Stderrs :
       /\ conn = "raise" => err = << >>
       /\ VerifyRc0(conn) => err = << >>
       /\ calls' = Append(calls, Call("Verify", script_name, NoTimeout,
                                   CASE conn = "raise" -> "raised"
                                     [] VerifyRc0(conn) -> "rc0"
                                     [] OTHER           -> "nonzero",
                                   err))
       /\ pc' = IF conn = "raise" THEN "cleanup" ELSE CliAfterVerify(conn)
       /\ CASE conn = "raise" ->
                 /\ console' = Append(console, ErrorExecuting)
                 /\ cli_ret' = "False"
                 /\ outcome' = "Exception"
            [] conn # "raise" /\ ~VerifyRc0(conn) ->
                 /\ console' = Append(console, VerificationFailed(err))
                 /\ cli_ret' = "False"
                 /\ outcome' = "VerifyFailed"
            [] OTHER ->
                 /\ console' = Append(console, << "Verification: " >>)
                 /\ UNCHANGED << cli_ret, outcome >>
  /\ UNCHANGED wsVars
  /\ UNCHANGED << now, files, exe, operation_name, script, script_name, script_exit, command_failed,
                  temp_script, webVars, prev >>

\* value the CLI executor returns for each way the Execute call can end
CliExecRet(how) == IF ExecRc0(how) THEN "True" ELSE "False"

\* Ctrl-C while subprocess.run(exec_cmd) waits raises KeyboardInterrupt in the executor
CliExecHows == ExecHows \cup { "interrupt" }

\* subprocess.run(exec_cmd, timeout=600), os.unlink(temp_script) and the result branches
CliExecute ==
  /\ exe = "cli" /\ pc = "exec"
  /\ \E how \in CliExecHows, err \in Stderrs :
     ExecPossible(how) /\ \E out \in ExecStdouts(how) :
       /\ how \notin { "nonzero", "fail" } => err = << >>
       /\ files' = ExecEffect(how)
       /\ script_exit' = ExecScriptExit(how)
       /\ \E failed \in CommandFailures(how) : command_failed' = failed
       /\ calls' = Append(calls, WithStdout(Call("Execute", script_name, ExecTimeout,
                                                   ExecEnded(how), err), out))
       /\ CASE how = "interrupt" ->
                 UNCHANGED << cli_ret, console, outcome, temp_script >>
            [] how = "raise" ->
                 /\ cli_ret' = CliExecRet(how)
                 /\ console' = Append(console, ErrorExecuting)
                 /\ outcome' = "Exception"
                 /\ UNCHANGED temp_script
            [] how = "timeout" ->
                 /\ cli_ret' = CliExecRet(how)
                 /\ console' = Append(console, OperationTimedOut)
                 /\ outcome' = "TimedOut"
                 /\ UNCHANGED temp_script
            [] how = "zero" ->
                 /\ cli_ret' = CliExecRet(how)
                 /\ console' = Append(console, OperationCompleted(out))
                 /\ outcome' = "Completed"
                 /\ temp_script' = "deleted"
            [] OTHER ->
                 /\ cli_ret' = CliExecRet(how)
                 /\ console' = Append(console, OperationFailed(err))
                 /\ outcome' = "ExecutionFailed"
                 /\ temp_script' = "deleted"
  /\ pc' = "cleanup"
  /\ UNCHANGED wsVars
  /\ UNCHANGED << now, exe, operation_name, script, script_name, webVars, prev >>

CleanupHows == { "ok", "fail", "raise", "timeout" }

\* variant of CleanupRet: a cleanup that does not succeed turns the result into a failure
CleanupRetEscalated(how) == IF how = "ok" THEN cli_ret ELSE "False"

\* value returned once the finally block has run
CleanupRet(how) == cli_ret

\* a KeyboardInterrupt is on its way out of the executor
Interrupted == calls # << >> /\ calls[Len(calls)].ended = "interrupted"

\* print of the except KeyboardInterrupt branch of handle_menu_choice
OperationCancelled == << "Operation cancelled by user." >>

\* variant of CliAfterCleanup: the finally block ends the operation like a return
CliAfterCleanupSwallowed(interrupted) == "done"

\* where control is once the finally block has run: back in the caller with the value
\* returned, or in the except KeyboardInterrupt branch of handle_menu_choice
CliAfterCleanup(interrupted) == IF interrupted THEN "cancelled" ELSE "done"

\* finally: rm -f /tmp/setup_script.sh with timeout=30, every error ignored
CliCleanup ==
  /\ exe = "cli" /\ pc = "cleanup"
  /\ \E how \in CleanupHows :
       /\ files' = IF how = "ok" THEN Remove(TmpSetupScript) ELSE files
       /\ calls' = Append(calls, Call("Cleanup", TmpSetupScript, CleanupTimeout,
                                   CleanupEnded(how), << >>))
       /\ cli_ret' = CleanupRet(how)
  /\ pc' = CliAfterCleanup(Interrupted)
  /\ console' = IF Interrupted THEN Append(console, OperationCancelled) ELSE console
  /\ UNCHANGED wsVars
  /\ UNCHANGED << now, exe, operation_name, script, script_name, outcome, script_exit,
                  command_failed, temp_script, webVars, prev >>

CliNext == ExecuteRemoteSetup \/ SetupPython \/ CliTransfer \/ CliVerify \/ CliExecute \/ CliCleanup

(* ------------------------ web: setup_languages ------------------------- *)

\* the remote target of the requests
CodespaceName == "cs-1"

\* operation_name setup_languages passes to execute_setup_script
LanguageSetup == << "L","a","n","g","u","a","g","e"," ","S","e","t","u","p" >>

\* request.languages of the requests: none, one registered identifier, one that is
\* not registered ("cobol"), two registered ones in both orders, one listed twice,
\* and a registered one next to an unregistered one
LanguageLists == { << >>, << "python" >>, << "cobol" >>,
                   << "python", "rust" >>, << "rust", "python" >>,
                   << "python", "python" >>, << "cobol", "python" >> }

Requests == { [ languages |-> l, include_ai_agents |-> ai, include_aliases |-> al ] :
                l \in LanguageLists, ai \in BOOLEAN, al \in BOOLEAN }

\* variant of NextStep: a composed fragment counts as two steps
NextStepDoubled(step) == step + 2

\* current_step += 1
NextStep(step) == step + 1

\* variant of Progress: the share of the steps that remain
ProgressRemaining(step, total) == ((total - step) * 100) \div total

\* int((current_step / total_steps) * 100)
Progress(step, total) == (step * 100) \div total

\* send_operation_update: the update dict; absent keys are Missing
Update(status, progress, message, data) ==
  [ status |-> status, progress |-> progress, message |-> message, data |-> data ]

\* variant of TotalSteps: the remote execution counts as a step of its own
TotalStepsWithExecution(req) ==
  Len(req.languages) + (IF req.include_ai_agents THEN 1 ELSE 0)
                     + (IF req.include_aliases THEN 1 ELSE 0) + 1

\* len(request.languages) + (1 if include_ai_agents else 0) + (1 if include_aliases else 0)
TotalSteps(req) == Len(req.languages) + (IF req.include_ai_agents THEN 1 ELSE 0)
                                      + (IF req.include_aliases THEN 1 ELSE 0)

\* script_parts = ["#!/bin/bash", "set -e", ""]
Preamble == << << "#!/bin/bash" >>, << "set -e" >>, << "" >> >>

\* the three parts appended for a language found in LANGUAGE_SCRIPTS
LanguageParts(language) ==
  << << LanguageBanner(language) >>, LANGUAGE_SCRIPTS[language], << "" >> >>

AIAgentsParts == << << AIAgentsBanner >>, AI_AGENTS_SCRIPT, << "" >> >>

\* f"cat >> ~/.bashrc << 'EOF'\n{PROGRAMMING_ALIASES}\nEOF"
AliasesParts == << << AliasesBanner >>,
                   << "cat >> ~/.bashrc << 'EOF'" >> \o PROGRAMMING_ALIASES \o << "EOF" >>,
                   << "" >> >>

\* if language in LANGUAGE_SCRIPTS
Registered(language) == language \in DOMAIN LANGUAGE_SCRIPTS

\* the parts the loop over request.languages appends, unregistered identifiers skipped
RECURSIVE LanguageSections(_)
LanguageSections(languages) ==
  IF languages = << >> THEN << >>
  ELSE (IF Registered(Head(languages)) THEN LanguageParts(Head(languages)) ELSE << >>)
       \o LanguageSections(Tail(languages))

\* script_parts of setup_languages when the script is joined
ComposedParts(req) ==
  Preamble \o LanguageSections(req.languages)
           \o (IF req.include_ai_agents THEN AIAgentsParts ELSE << >>)
           \o (IF req.include_aliases THEN AliasesParts ELSE << >>)
           \o << << CompletionMarker >> >>

\* combined_script = "\n".join(script_parts)
ComposedScript(req) == Join(ComposedParts(req))

\* setup_languages from its entry to the first loop iteration
SetupLanguages ==
  /\ exe = "web" /\ pc \in { "idle", "done" }
  /\ \E req \in Requests :
       /\ request' = req
       /\ total_steps' = TotalSteps(req)
       /\ progress_sent' = << Update("started", << "0" >>,
                                     << "Setting up ", ToString(Len(req.languages)),
                                        " languages in ", CodespaceName, "..." >>,
                                     Missing) >>
  /\ pc' = "compose_lang"
  /\ script_parts' = Preamble
  /\ current_step' = 0
  /\ lang_idx' = 1
  /\ operation_name' = << >>
  /\ script' = << >>
  /\ script_name' = << >>
  /\ calls' = << >>
  /\ outcome' = "none"
  /\ script_exit' = "none"
  /\ command_failed' = FALSE
  /\ cli_ret' = "None"
  /\ console' = << >>
  /\ temp_script' = "none"
  /\ result' = NoResult
  /\ response' = NoResponse
  /\ prev' = Finished
  /\ UNCHANGED wsVars
  /\ UNCHANGED << now, files, exe >>

\* one iteration of: for language in request.languages
ComposeLanguage ==
  /\ exe = "web" /\ pc = "compose_lang"
  /\ lang_idx <= Len(request.languages)
  /\ LET language == request.languages[lang_idx]
     IN  IF Registered(language)
         THEN /\ script_parts' = script_parts \o LanguageParts(language)
              /\ current_step' = NextStep(current_step)
              /\ progress_sent' =
                   Append(progress_sent,
                          Update("running",
                                 << ToString(Progress(NextStep(current_step), total_steps)) >>,
                                 << "Setting up ", language, "..." >>, Missing))
         ELSE UNCHANGED << script_parts, current_step, progress_sent >>
  /\ lang_idx' = lang_idx + 1
  /\ UNCHANGED wsVars
  /\ UNCHANGED << now, files, exe, pc, operation_name, script, script_name, calls,
                  outcome, script_exit, command_failed, cliVars, request, total_steps, result,
                  response, prev >>

\* if request.include_ai_agents
ComposeAIAgents ==
  /\ exe = "web" /\ pc = "compose_lang"
  /\ lang_idx > Len(request.languages)
  /\ IF request.include_ai_agents
     THEN /\ script_parts' = script_parts \o AIAgentsParts
          /\ current_step' = NextStep(current_step)
          /\ progress_sent' =
               Append(progress_sent,
                      Update("running",
                             << ToString(Progress(NextStep(current_step), total_steps)) >>,
                             << "Setting up AI agents..." >>, Missing))
     ELSE UNCHANGED << script_parts, current_step, progress_sent >>
  /\ pc' = "compose_aliases"
  /\ UNCHANGED wsVars
  /\ UNCHANGED << now, files, exe, operation_name, script, script_name, calls,
                  outcome, script_exit, command_failed, cliVars, request, total_steps, lang_idx, result,
                  response, prev >>

\* if request.include_aliases
ComposeAliases ==
  /\ exe = "web" /\ pc = "compose_aliases"
  /\ IF request.include_aliases
     THEN /\ script_parts' = script_parts \o AliasesParts
          /\ current_step' = NextStep(current_step)
          /\ progress_sent' =
               Append(progress_sent,
                      Update("running",
                             << ToString(Progress(NextStep(current_step), total_steps)) >>,
                             << "Setting up aliases..." >>, Missing))
     ELSE UNCHANGED << script_parts, current_step, progress_sent >>
  /\ pc' = "compose_final"
  /\ UNCHANGED wsVars
  /\ UNCHANGED << now, files, exe, operation_name, script, script_name, calls,
                  outcome, script_exit, command_failed, cliVars, request, total_steps, lang_idx, result,
                  response, prev >>

\* the completion marker, the join, and the entry of execute_setup_script
ComposeFinal ==
  /\ exe = "web" /\ pc = "compose_final"
  /\ script_parts' = Append(script_parts, << CompletionMarker >>)
  /\ script' = Join(script_parts')
  /\ operation_name' = LanguageSetup
  /\ script_name' = ScriptName(LanguageSetup, now)
  /\ pc' = "transfer"
  /\ UNCHANGED wsVars
  /\ UNCHANGED << now, files, exe, calls, outcome, script_exit, command_failed, cliVars, request,
                  total_steps, current_step, lang_idx, progress_sent, result, response,
                  prev >>

(* ----------------------------- web executor ---------------------------- *)

\* run_gh_command: (success, output)
RunGhCommand(rc0, raised, out, err) ==
  IF raised THEN << FALSE, << "Command execution error: " >> \o ExceptionText >>
  ELSE IF rc0 THEN << TRUE, Strip(out) >>
  ELSE << FALSE, Strip(err) >>

\* variant of CreateFailedResult: the output of the failed command is dropped
CreateFailedResultGeneric(output) ==
  [ success |-> FALSE, error |-> << "Failed to create script" >>,
    output |-> Missing, script_name |-> Missing ]

\* {"success": False, "error": f"Failed to create script: {output}"}
CreateFailedResult(output) ==
  [ success |-> FALSE, error |-> << "Failed to create script: " >> \o output,
    output |-> Missing, script_name |-> Missing ]

\* {"success": success, "output": output, "script_name": script_name, ...}
ExecResult(success, output) ==
  [ success |-> success, error |-> Missing, output |-> output,
    script_name |-> script_name ]

\* await self.run_gh_command(create_cmd) and the test of success
WebTransfer ==
  /\ exe = "web" /\ pc = "transfer"
  /\ \E how \in TransferHows, err \in Stderrs :
       /\ TransferPossible(how)
       /\ how \notin { "fail", "spill" } => err = << >>
       /\ files' = TransferEffect(how)
       /\ calls' = Append(calls, Call("Transfer", script_name, NoTimeout,
                                   TransferEnded(how), err))
       /\ LET r == RunGhCommand(TransferRc0(how), how = "raise", << >>, err)
          IN  IF r[1]
              THEN /\ pc' = "exec"
                   /\ UNCHANGED << result, outcome >>
              ELSE /\ pc' = "respond"
                   /\ result' = CreateFailedResult(r[2])
                   /\ outcome' = "TransferFailed"
  /\ UNCHANGED wsVars
  /\ UNCHANGED << now, exe, operation_name, script, script_name, script_exit, command_failed, cliVars,
                  request, script_parts, total_steps, current_step, lang_idx,
                  progress_sent, response, prev >>

\* ways the Execute call of the web executor returns (it has no timeout)
WebExecHows == ExecHows \ { "timeout" }

\* await self.run_gh_command(exec_cmd) and the returned dict
WebExecute ==
  /\ exe = "web" /\ pc = "exec"
  /\ \E how \in WebExecHows, err \in Stderrs :
     ExecPossible(how) /\ \E out \in ExecStdouts(how) :
       /\ how \notin { "nonzero", "fail" } => err = << >>
       /\ files' = ExecEffect(how)
       /\ script_exit' = ExecScriptExit(how)
       /\ \E failed \in CommandFailures(how) : command_failed' = failed
       /\ calls' = Append(calls, WithStdout(Call("Execute", script_name, NoTimeout,
                                                   ExecEnded(how), err), out))
       /\ LET r == RunGhCommand(ExecRc0(how), how = "raise", out, err)
          IN  /\ result' = ExecResult(r[1], r[2])
              /\ outcome' = IF r[1] THEN "Completed" ELSE "ExecutionFailed"
  /\ pc' = "respond"
  /\ UNCHANGED wsVars
  /\ UNCHANGED << now, exe, operation_name, script, script_name, cliVars, request,
                  script_parts, total_steps, current_step, lang_idx, progress_sent,
                  response, prev >>

\* the branches on result["success"] that end setup_languages
Respond ==
  /\ exe = "web" /\ pc = "respond"
  /\ IF result.success
     THEN /\ progress_sent' =
               Append(progress_sent,
                      Update("completed", << "100" >>,
                             << "All languages setup completed successfully!" >>,
                             result.output))
          /\ response' = [ status |-> "200", detail |-> Missing,
                           languages_installed |-> request.languages ]
     ELSE /\ progress_sent' =
               Append(progress_sent,
                      Update("failed", Missing,
                             << "Setup failed: " >> \o Get(result.error, << "Unknown error" >>),
                             Missing))
          /\ response' = [ status |-> "400",
                           detail |-> Get(result.error, << "Setup failed" >>),
                           languages_installed |-> << >> ]
  /\ pc' = "done"
  /\ UNCHANGED wsVars
  /\ UNCHANGED << now, files, exe, operation_name, script, script_name, calls, outcome,
                  script_exit, command_failed, cliVars, request, script_parts, total_steps, current_step,
                  lang_idx, result, prev >>

(* ----------------------- a remote shell that hangs ---------------------- *)

\* timeout argument of the remote call an operation of the program makes in a phase:
\* only subprocess.run(exec_cmd, ..., timeout=600) of the CLI executor has one
CallTimeout(program, phase) ==
  IF program = "cli" /\ phase = "Execute" THEN ExecTimeout ELSE NoTimeout

PhaseOf(position) == CASE position = "transfer" -> "Transfer"
                       [] position = "verify"   -> "Verify"
                       [] position = "exec"     -> "Execute"

\* the remote shell never answers a call that has no timeout: subprocess.run of the
\* CLI executor (Transfer, Verify) and process.communicate() of run_gh_command
\* (Transfer, Execute of the web executor) do not return. With its timeout the
\* Execute call of the CLI executor ends as "timeout" in CliExecute.
RemoteNeverResponds ==
  /\ pc \in { "transfer", "verify", "exec" }
  /\ CallTimeout(exe, PhaseOf(pc)) = NoTimeout
  /\ calls' = Append(calls, Call(PhaseOf(pc), script_name, NoTimeout, "never", << >>))
  /\ pc' = "blocked"
  /\ UNCHANGED wsVars
  /\ UNCHANGED << now, files, exe, operation_name, script, script_name, outcome,
                  script_exit, command_failed, cliVars, webVars, prev >>

WebNext == SetupLanguages \/ ComposeLanguage \/ ComposeAIAgents \/ ComposeAliases
           \/ ComposeFinal \/ WebTransfer \/ WebExecute \/ Respond

Next == Tick \/ CliNext \/ WebNext \/ RemoteNeverResponds

Spec == Init /\ [][Next]_vars

(* ------------------- WebSocketManager: operations --------------------- *)

\* the broadcasts that are inside their loop over the list of m, other than task t,
\* see the list lose elements: the history field shrunk records it
Shrink(bs, m, t, before, after) ==
  [ u \in Tasks |->
      IF u # t /\ bs[u].pc = "iter" /\ bs[u].self = m /\ before # after
      THEN [ bs[u] EXCEPT !.shrunk = TRUE ] ELSE bs[u] ]

\* self.disconnect(websocket) on instance m, called outside broadcast
Disconnect(m, w) ==
  LET after == DisconnectActive(active_connections[m], w)
  IN  /\ active_connections' = [ active_connections EXCEPT ![m] = after ]
      /\ connection_data' = [ connection_data EXCEPT ![m] = DisconnectData(@, w) ]
      /\ broadcasts' = Shrink(broadcasts, m, "none", active_connections[m], after)

\* websocket_endpoint up to the await inside connect: accept, append, connection_data
Connect(w) ==
  /\ exe = "ws" /\ ws_pc[w] = "new"
  /\ active_connections' =
       [ active_connections EXCEPT ![EndpointManager] = Append(@, w) ]
  /\ connection_data' = [ connection_data EXCEPT ![EndpointManager] = @ \cup { w } ]
  /\ ws_pc' = [ ws_pc EXCEPT ![w] = "welcome" ]
  /\ UNCHANGED << progVars, closed, broadcasts >>

\* the welcome message of connect: send_personal_message disconnects on a failed send
Welcome(w) ==
  /\ exe = "ws" /\ ws_pc[w] = "welcome"
  /\ IF w \in closed
     THEN Disconnect(EndpointManager, w)
     ELSE UNCHANGED << active_connections, connection_data, broadcasts >>
  /\ ws_pc' = [ ws_pc EXCEPT ![w] = "receive" ]
  /\ UNCHANGED << progVars, closed >>

\* the receive loop of websocket_endpoint when the peer has gone: receive_text raises
\* WebSocketDisconnect (or the echo fails inside send_personal_message), the
\* connection is removed and the endpoint call ends; an echo to a live peer changes
\* nothing in the manager
Receive(w) ==
  /\ exe = "ws" /\ ws_pc[w] = "receive" /\ w \in closed
  /\ Disconnect(EndpointManager, w)
  /\ ws_pc' = [ ws_pc EXCEPT ![w] = "ended" ]
  /\ UNCHANGED << progVars, closed >>

\* the client behind a connected WebSocket goes away
PeerClose(w) ==
  /\ exe = "ws" /\ ws_pc[w] \in { "welcome", "receive" } /\ w \notin closed
  /\ closed' = closed \cup { w }
  /\ UNCHANGED << progVars, active_connections, connection_data, ws_pc, broadcasts >>

\* broadcast from its entry to the loop: disconnected = [], the list iterator at 0.
\* self is the instance of languages.py for the updates of the setup operations, or,
\* the class taken on its own, the instance the endpoint registers into.
BroadcastStart(t) ==
  /\ exe = "ws" /\ broadcasts[t].pc = "idle"
  /\ \E m \in Managers :
       broadcasts' = [ broadcasts EXCEPT ![t] =
         [ pc |-> "iter", self |-> m, idx |-> 0, disconnected |-> << >>,
           log |-> << >>, start |-> active_connections[m],
           observers |-> active_connections[EndpointManager], shrunk |-> FALSE ] ]
  /\ UNCHANGED << progVars, active_connections, connection_data, closed, ws_pc >>

\* one iteration of: for connection in self.active_connections (the list iterator
\* reads the live list at its index), try: await connection.send_text / except:
\* disconnected.append(connection)
BroadcastSend(t) ==
  LET b == broadcasts[t]
      list == active_connections[b.self]
  IN  /\ exe = "ws" /\ b.pc = "iter"
      /\ b.idx < Len(list)
      /\ LET connection == list[b.idx + 1]
             ok == connection \notin closed
         IN  broadcasts' = [ broadcasts EXCEPT ![t] =
               [ b EXCEPT !.idx = b.idx + 1,
                          !.log = Append(b.log, [ to |-> connection, ok |-> ok ]),
                          !.disconnected = IF ok THEN b.disconnected
                                           ELSE Append(b.disconnected, connection) ] ]
      /\ UNCHANGED << progVars, active_connections, connection_data, closed, ws_pc >>

\* the list iterator is exhausted: the cleanup loop over disconnected and the return
BroadcastReturn(t) ==
  LET b == broadcasts[t]
      list == active_connections[b.self]
      after == CleanupActive(list, b.disconnected)
  IN  /\ exe = "ws" /\ b.pc = "iter"
      /\ b.idx >= Len(list)
      /\ active_connections' = [ active_connections EXCEPT ![b.self] = after ]
      /\ connection_data' =
           [ connection_data EXCEPT ![b.self] = CleanupData(@, b.disconnected) ]
      /\ broadcasts' = [ Shrink(broadcasts, b.self, t, list, after)
                           EXCEPT ![t] = [ b EXCEPT !.pc = "returned" ] ]
      /\ UNCHANGED << progVars, closed, ws_pc >>

NextWs ==
  \/ \E w \in Sockets : Connect(w) \/ Welcome(w) \/ Receive(w) \/ PeerClose(w)
  \/ \E t \in Tasks : BroadcastStart(t) \/ BroadcastSend(t) \/ BroadcastReturn(t)

\* the API process seen from its WebSocketManager instances
InitWs ==
  /\ exe = "ws"
  /\ InitProgram
  /\ InitWsVars

SpecWs == InitWs /\ [][NextWs]_vars

(* ------------------------------ properties ---------------------------- *)

\* remote commands of the current operation, by phase
CallsOf(phase) == { i \in DOMAIN calls : calls[i].phase = phase }

\* the current operation has returned to its caller
Returned == pc = "done"

\* C1: in execute_script_in_codespace, once the Transfer call has ended with exit code 0
\* and the Verify call with a non-zero exit code, no Execute command is in the
\* operation's call log, the pending return value is False, and the operation is in its
\* cleanup or has returned.
C1_VerifyFailureStopsBeforeExecute ==
  ( /\ exe = "cli"
    /\ \E t \in CallsOf("Transfer"), v \in CallsOf("Verify") :
         t < v /\ calls[t].ended = "rc0" /\ calls[v].ended = "nonzero" )
  => /\ CallsOf("Execute") = { }
     /\ cli_ret = "False"
     /\ pc \in { "cleanup", "done" }

\* C1 witness: a CLI operation returned after a successful Transfer and a failed Verify
C1_Witness ==
  /\ exe = "cli" /\ Returned
  /\ Len(calls) = 3
  /\ calls[1].phase = "Transfer" /\ calls[1].ended = "rc0"
  /\ calls[2].phase = "Verify" /\ calls[2].ended = "nonzero"
  /\ calls[3].phase = "Cleanup"

\* C2: an Execute call that ran into its timeout and an Execute call that ended with a
\* non-zero exit never give the caller the same return value (stated on two consecutive
\* operations of the CLI process).
C2_TimedOutDistinctFromExecutionFailed ==
  ( /\ exe = "cli" /\ Returned
    /\ { prev.outcome, outcome } = { "TimedOut", "ExecutionFailed" } )
  => prev.cli_ret # cli_ret

\* the Transfer call of the current operation ended with a non-zero exit code
TransferFailed ==
  /\ calls # << >>
  /\ calls[1].phase = "Transfer"
  /\ calls[1].ended = "nonzero"

\* C3: when the Transfer call returns a non-zero exit code the operation fails, no
\* Verify and no Execute command is issued, and the failure report carries the captured
\* standard error: the CLI executor prints it unchanged, the web executor returns it,
\* stripped of surrounding white space, in the error of its result, which
\* setup_languages passes on as the detail of its HTTP error.
C3_TransferFailureReportsStderr ==
  TransferFailed =>
    /\ CallsOf("Verify") = { } /\ CallsOf("Execute") = { }
    /\ exe = "cli" =>
         /\ cli_ret = "False"
         /\ pc \in { "cleanup", "done" }
         /\ \E m \in DOMAIN console :
              /\ Contains(console[m], calls[1].stderr)
              /\ Head(console[m]) = "Failed to create script: "
    /\ exe = "web" =>
         /\ pc \in { "respond", "done" }
         /\ ~result.success
         /\ Contains(result.error, Strip(calls[1].stderr))
         /\ Returned => /\ response.status = "400"
                        /\ Contains(response.detail, Strip(calls[1].stderr))

\* C3 witness: the web operation returned after a Transfer that failed with a
\* non-blank standard error
C3_Witness ==
  /\ TransferFailed /\ Returned /\ exe = "web"
  /\ Strip(calls[1].stderr) # << >>
  /\ Len(calls) = 1

\* C3 witness on the CLI side (the same case in the menu program)
C3_WitnessCli ==
  /\ TransferFailed /\ Returned /\ exe = "cli"
  /\ calls[1].stderr # << >>

\* C4: execute_script_in_codespace returns only through its cleanup: the step that
\* returns is taken with the outcome decided, appends the one Cleanup command of the
\* operation to the call log, and leaves the decided return value and outcome as they
\* were, however the cleanup command ended; and every decided outcome is followed by
\* the cleanup.
C4_CleanupOnceResultUnchanged ==
  [][ exe = "cli" =>
        /\ (pc # "done" /\ pc' = "done") =>
             /\ pc = "cleanup"
             /\ outcome # "none" /\ outcome' = outcome
             /\ cli_ret # "None" /\ cli_ret' = cli_ret
             /\ CallsOf("Cleanup") = { }
             /\ Len(calls') = Len(calls) + 1
             /\ calls'[Len(calls')].phase = "Cleanup"
             /\ SubSeq(calls', 1, Len(calls)) = calls
        /\ (outcome = "none" /\ outcome' # "none") => pc' = "cleanup"
        /\ pc' \notin { "done", "cancelled", "idle" } =>
             \A i \in DOMAIN calls' : calls'[i].phase # "Cleanup" ]_vars

\* C4 witness: a completed operation returned True although its cleanup command failed
C4_Witness ==
  /\ exe = "cli" /\ Returned
  /\ outcome = "Completed" /\ cli_ret = "True"
  /\ calls[Len(calls)].phase = "Cleanup"
  /\ calls[Len(calls)].ended \in { "nonzero", "raised", "timeout" }

C5_WitnessZero ==
  /\ Returned /\ script_exit = "zero" /\ ~Exists(script_name)

\* the web operation has composed its script
Composed == exe = "web" /\ script # << >>

\* the script the steps of setup_languages build is the one ComposedScript computes
ComposeStepsAgree == Composed => script = ComposedScript(request)

Range(f) == { f[i] : i \in DOMAIN f }

\* C6: a request with no languages and both flags false issues no remote command.
C6_EmptySelectionRejected ==
  ( /\ exe = "web" /\ pc # "idle"
    /\ request.languages = << >>
    /\ ~request.include_ai_agents /\ ~request.include_aliases )
  => calls = << >>

\* C7: a request naming an identifier that is not in LANGUAGE_SCRIPTS issues no remote
\* command and does not end in the success response.
C7_UnknownFragmentRejected ==
  ( /\ exe = "web" /\ pc # "idle"
    /\ \E i \in DOMAIN request.languages : ~Registered(request.languages[i]) )
  => /\ calls = << >>
     /\ response.status # "200"

\* C8: the script name of an operation differs from the script name of the operation
\* the same process ran before it.
C8_ScriptNamesDiffer ==
  ( /\ pc # "idle"
    /\ script_name # << >> /\ prev.script_name # << >> )
  => script_name # prev.script_name

\* the lists that name the identifiers of l, each once, in some order
Orderings(l) == { m \in [ DOMAIN l -> Range(l) ] : Range(m) = Range(l) }

\* C9: for a non-empty list of distinct registered identifiers, the composed script is
\* the script composed from every other ordering of the same identifiers.
C9_ScriptIndependentOfRequestOrder ==
  ( /\ Composed
    /\ request.languages # << >>
    /\ \A i \in DOMAIN request.languages : Registered(request.languages[i])
    /\ Cardinality(Range(request.languages)) = Len(request.languages) )
  => \A m \in Orderings(request.languages) :
       script = ComposedScript([ request EXCEPT !.languages = m ])

\* the banner lines setup_languages can write
Banners == { LanguageBanner(l) : l \in DOMAIN LANGUAGE_SCRIPTS }
           \cup { AIAgentsBanner, AliasesBanner }

IsBanner(line) == line \in Banners

\* the registered identifiers of a list, each at its first occurrence
RECURSIVE Resolved(_, _)
Resolved(languages, seen) ==
  IF languages = << >> THEN << >>
  ELSE IF Registered(Head(languages)) /\ Head(languages) \notin seen
       THEN << Head(languages) >> \o Resolved(Tail(languages), seen \cup { Head(languages) })
       ELSE Resolved(Tail(languages), seen)

\* one banner per requested fragment, in resolved order
ExpectedBanners(req) ==
  LET r == Resolved(req.languages, { })
  IN  [ i \in DOMAIN r |-> LanguageBanner(r[i]) ]
      \o (IF req.include_ai_agents THEN << AIAgentsBanner >> ELSE << >>)
      \o (IF req.include_aliases THEN << AliasesBanner >> ELSE << >>)

IsMarker(line) == line = CompletionMarker

\* C10: the composed script holds exactly one banner line per requested fragment, in
\* resolved order, and exactly one completion-marker line, which is its last line.
C10_OneSectionPerFragment ==
  Composed =>
    /\ SelectSeq(script, IsBanner) = ExpectedBanners(request)
    /\ Len(SelectSeq(script, IsMarker)) = 1
    /\ script[Len(script)] = CompletionMarker

\* the same statement for the requests that list no identifier twice
C10_HoldsWithoutDuplicates ==
  ( Composed /\ Cardinality(Range(request.languages)) = Len(request.languages) )
  => /\ SelectSeq(script, IsBanner) = ExpectedBanners(request)
     /\ Len(SelectSeq(script, IsMarker)) = 1
     /\ script[Len(script)] = CompletionMarker

\* completed / total * 100 rounded to the nearest integer
RoundedPercent(completed, total) == (2 * 100 * completed + total) \div (2 * total)

\* the step count behind the i-th update of the operation: the "started" update is
\* the first one and every "running" update follows one increment of current_step
StepOf(i) == i - 1

\* C11: every percentage reported during composition is completed_steps /
\* total_steps * 100 rounded to the nearest integer (2 of 3 steps reports 67)
C11_ProgressRoundedToNearest ==
  \A i \in 1..Len(progress_sent) :
    progress_sent[i].status = "running" =>
      progress_sent[i].progress = << ToString(RoundedPercent(StepOf(i), total_steps)) >>

\* C11, the near statement that holds: the percentage is the quotient rounded down
C11_ProgressRoundedDown ==
  \A i \in 1..Len(progress_sent) :
    progress_sent[i].status = "running" =>
      /\ 1 <= StepOf(i) /\ StepOf(i) <= total_steps
      /\ \E p \in 0..100 :
           /\ progress_sent[i].progress = << ToString(p) >>
           /\ p * total_steps <= 100 * StepOf(i)
           /\ 100 * StepOf(i) < (p + 1) * total_steps

\* the updates of the operation that name a composed fragment
IsRunning(u) == u.status = "running"

\* the updates that carry a percent value
HasPercent(u) == u.progress # Missing

PercentOf(u) == CHOOSE p \in 0..100 : u.progress = << ToString(p) >>

\* the banner of the fragment an update names in its message
BannerOf(u) ==
  IF u.message = << "Setting up AI agents..." >> THEN AIAgentsBanner
  ELSE IF u.message = << "Setting up aliases..." >> THEN AliasesBanner
  ELSE LanguageBanner(u.message[2])

\* the registered identifiers among the first n of the request, in request order
NotifiedLanguages(n) ==
  SelectSeq(SubSeq(request.languages, 1, n), Registered)

\* C12: within one setup_languages operation the notifications name the fragments in
\* the order they were added to the script (languages in request order, then AI
\* agents, then aliases), and the percent values they carry, from the initial 0 to the
\* final 100, never decrease.
C12_NotificationsFollowComposition ==
  ( exe = "web" /\ pc \notin { "idle" } ) =>
    LET running   == SelectSeq(progress_sent, IsRunning)
        percents  == SelectSeq(progress_sent, HasPercent)
        banners   == SelectSeq(Join(script_parts), IsBanner)
        languages == NotifiedLanguages(lang_idx - 1)
    IN  /\ [ i \in DOMAIN running |-> BannerOf(running[i]) ] = banners
        /\ SubSeq(banners, 1, Len(languages))
             = [ i \in DOMAIN languages |-> LanguageBanner(languages[i]) ]
        /\ \A i \in (Len(languages) + 1)..Len(banners) :
             banners[i] \in { AIAgentsBanner, AliasesBanner }
        /\ \A i, j \in DOMAIN banners :
             ( i < j /\ banners[i] = AliasesBanner ) => banners[j] # AIAgentsBanner
        /\ progress_sent[1].status = "started" /\ PercentOf(progress_sent[1]) = 0
        /\ \A i, j \in DOMAIN percents :
             i <= j => PercentOf(percents[i]) <= PercentOf(percents[j])
        /\ \A i \in DOMAIN progress_sent :
             progress_sent[i].status = "completed" =>
               /\ i = Len(progress_sent)
               /\ PercentOf(progress_sent[i]) = 100

\* an operation that composed two languages and the AI agents and completed
C12_Witness ==
  /\ exe = "web" /\ pc = "done" /\ outcome = "Completed"
  /\ Len(SelectSeq(progress_sent, IsRunning)) = 3
  /\ request.languages = << "rust", "python" >>
  /\ progress_sent[Len(progress_sent)].progress = << "100" >>

\* the calls of the three blocking phases made so far by the current operation
BlockingCalls == { i \in DOMAIN calls : calls[i].phase \in { "Transfer", "Verify", "Execute" } }

\* C16: each of the Transfer, Verify and Execute calls is bounded by a timeout, so an
\* operation of the CLI or of the web executor is never left waiting without end for
\* a remote shell that does not answer.
C16_EveryRemoteCallBounded ==
  /\ \A i \in BlockingCalls : calls[i].timeout # NoTimeout
  /\ pc # "blocked"

\* C16, the part that holds: the Execute call of the CLI executor is bounded by
\* ExecTimeout and the operation goes on to its cleanup when the bound is hit
C16_CliExecuteBounded ==
  exe = "cli" =>
    \A i \in BlockingCalls :
      calls[i].phase = "Execute" =>
        /\ calls[i].timeout = ExecTimeout
        /\ calls[i].ended # "never"
        /\ pc \in { "cleanup", "done" }

\* the terminal outcomes of the taxonomy
TerminalOutcomes ==
  { "TransferFailed", "VerifyFailed", "ExecutionFailed", "TimedOut", "Completed" }

\* the executor has returned to its caller (setup_languages goes on to its response)
ExecutorReturned == IF exe = "cli" THEN pc = "done" ELSE pc \in { "respond", "done" }

\* the success flag of the value the executor returns
SuccessFlag == IF exe = "cli" THEN cli_ret = "True" ELSE result.success

\* the blocking call that decided the outcome is the last one of the operation, every
\* call before it ended with exit code 0, and its phase is the one the outcome names
DecidedByLastCall ==
  BlockingCalls # { } /\
  LET last == CHOOSE i \in BlockingCalls : \A j \in BlockingCalls : j <= i
  IN  /\ \A j \in BlockingCalls : j < last => calls[j].ended = "rc0"
      /\ \A i, j \in BlockingCalls : i < j => calls[i].phase # calls[j].phase
      /\ outcome = "TransferFailed" => calls[last].phase = "Transfer"
      /\ outcome = "VerifyFailed" => calls[last].phase = "Verify"
      /\ outcome \in { "ExecutionFailed", "TimedOut", "Completed" }
           => calls[last].phase = "Execute"
      /\ calls[last].ended = "nonzero"
           => outcome \in { "TransferFailed", "VerifyFailed", "ExecutionFailed" }
      /\ calls[last].ended = "timeout" => outcome = "TimedOut"
      /\ calls[last].ended = "rc0" <=> outcome = "Completed"

\* what every executor invocation satisfies once its outcome is among the given ones
EndsIn(outcomes) ==
  /\ ( exe \in { "cli", "web" } /\ ExecutorReturned ) =>
       /\ outcome \in outcomes
       /\ exe = "cli" => cli_ret \in { "True", "False" }
       /\ SuccessFlag <=> outcome = "Completed"
  /\ outcome # "none" => DecidedByLastCall

\* once reached, the outcome of an operation stays and no Transfer, Verify or Execute
\* call follows it
OutcomeIsFinal ==
  ( outcome # "none" /\ pc # "done" ) =>
    /\ outcome' = outcome
    /\ BlockingCalls' = BlockingCalls

C17_WitnessWeb ==
  /\ exe = "web" /\ pc = "respond" /\ outcome = "ExecutionFailed" /\ ~result.success
  /\ Len(calls) = 2

\* the composed script ran in the web path and exited non-zero, and setup_languages
\* has answered
ScriptFailedInWeb ==
  /\ exe = "web" /\ Returned
  /\ script_exit = "nonzero"
  /\ \E i \in CallsOf("Execute") : calls[i].ended = "nonzero"

\* captured standard error of the Execute call of the current operation
ExecuteStderr == calls[CHOOSE i \in CallsOf("Execute") : TRUE].stderr

\* C18: when the composed script exits non-zero in the web path, the 'failed'
\* notification and the detail of the HTTP error of setup_languages contain the
\* captured standard error, not a generic text.
C18_ScriptFailureSurfacesStderr ==
  ScriptFailedInWeb =>
    LET failed == progress_sent[Len(progress_sent)]
    IN  /\ failed.status = "failed"
        /\ Contains(failed.message, Strip(ExecuteStderr))
        /\ Contains(response.detail, Strip(ExecuteStderr))
        /\ failed.message # << "Setup failed: ", "Unknown error" >>
        /\ response.detail # << "Setup failed" >>

\* C18, what the code does: the captured standard error is in the output of the
\* result dict, which has no error key, and both texts are the generic ones
C18_ScriptFailureSurfacesGenericText ==
  ScriptFailedInWeb =>
    LET failed == progress_sent[Len(progress_sent)]
    IN  /\ failed.status = "failed"
        /\ result.output = Strip(ExecuteStderr)
        /\ result.error = Missing
        /\ failed.message = << "Setup failed: ", "Unknown error" >>
        /\ response.status = "400"
        /\ response.detail = << "Setup failed" >>

\* the Execute call of a CLI operation that completed, and what was printed for it
CompletedInCli ==
  /\ exe = "cli" /\ outcome = "Completed"
  /\ CallsOf("Execute") # { }

CapturedStdout == calls[CHOOSE i \in CallsOf("Execute") : TRUE].stdout

\* the lines of the captured output as the executor counts them
CapturedLines == Split(Strip(CapturedStdout))

\* what the executor printed after the "Output:" heading
Displayed ==
  LET printed == console[Len(console)]
      heading == CHOOSE i \in DOMAIN printed : printed[i] = "Output:"
  IN  SubSeq(printed, heading + 1, Len(printed))

NonEmpty(line) == line # << >>

IsElision(line) ==
  line = << "... (" \o ToString(Len(CapturedLines)) \o " total lines) ..." >>

\* C19: on a successful run the displayed output is the captured output unchanged
\* when it has at most 20 lines, and exactly its first 10 lines, one elision marker
\* and its last 5 lines when it has more (lines counted on the output stripped of
\* surrounding white space, as the executor counts them).
C19_DisplayShowsAllOrHeadAndTail ==
  ( CompletedInCli /\ CapturedStdout # << >> ) =>
    LET n == Len(CapturedLines)
        shown == SelectSeq(Split(Displayed), NonEmpty)
    IN  /\ n <= 20 => Displayed = CapturedStdout
        /\ n > 20 =>
             /\ Len(shown) = 10 + 1 + 5
             /\ SubSeq(shown, 1, 10) = SubSeq(CapturedLines, 1, 10)
             /\ IsElision(shown[11])
             /\ SubSeq(shown, 12, 16) = SubSeq(CapturedLines, n - 4, n)

\* a CLI operation that completed with 25 lines of output, and one with 15
C19_Witness ==
  /\ CompletedInCli /\ pc = "done"
  /\ Len(CapturedLines) = 25
  /\ Len(SelectSeq(Split(Displayed), NonEmpty)) = 16

C19_WitnessShort ==
  /\ CompletedInCli /\ pc = "done"
  /\ Len(CapturedLines) = 15
  /\ Displayed = CapturedStdout

\* the marker line is in a captured output
HasMarker(out) == Contains(out, Strip(MarkerStdout))

\* C20: the executor reports success only when the completion-marker line is in the
\* captured standard output; an exit code zero without the marker is not a success.
C20_SuccessOnlyWithMarker ==
  ( exe \in { "cli", "web" } /\ ExecutorReturned /\ SuccessFlag ) =>
    /\ HasMarker(CapturedStdout)
    /\ exe = "web" => HasMarker(result.output)

\* C20, what the code does: success is the exit code zero of the Execute call
C20_SuccessIsExitCodeZero ==
  ( exe \in { "cli", "web" } /\ ExecutorReturned ) =>
    ( SuccessFlag <=> \E i \in CallsOf("Execute") : calls[i].ended = "rc0" )

\* a Verify call of the current operation ended with exit code 0
Verified == \E v \in CallsOf("Verify") : calls[v].ended = "rc0"

\* the operation is about to issue its Execute command, or has issued it
AtOrPastExecute == pc = "exec" \/ CallsOf("Execute") # { }

\* C21: in the CLI and in the web executor the Execute command is issued only after a
\* Verify command of the same operation confirmed that the remote script file exists
\* and is not empty; a transfer that wrote an empty file or none never leads to an
\* Execute command.
C21_ExecuteOnlyAfterVerifiedNonEmpty ==
  ( exe \in { "cli", "web" } /\ AtOrPastExecute ) =>
    /\ Verified
    /\ \A e \in CallsOf("Execute"), v \in CallsOf("Verify") : v < e
    /\ pc = "exec" => ( Exists(script_name) /\ files[script_name] # "empty" )

\* C21, the part that holds: the CLI executor issues Execute only after a Verify call
\* that ended with exit code 0, and then the file exists (it may be empty)
C21_CliExecuteAfterVerifiedExistence ==
  ( exe = "cli" /\ AtOrPastExecute ) =>
    /\ Verified
    /\ \A e \in CallsOf("Execute"), v \in CallsOf("Verify") : v < e
    /\ pc = "exec" => Exists(script_name)

\* the script has been handed to the executor
Handed == pc \in { "transfer", "verify", "exec", "cleanup", "respond", "done", "blocked" }

\* C22: every script handed to the remote executor opens with the shebang and set -e,
\* so a failed command of the script ends the run with a non-zero exit and the
\* operation is not reported as successful
C22_StrictModeAbortsOnFailure ==
  Handed =>
    /\ StrictMode(script)
    /\ command_failed => ( script_exit = "nonzero" /\ ~SuccessFlag )

\* what holds: the scripts composed by setup_languages and execute_remote_setup open
\* with the strict-mode preamble, and a failed command of theirs is never a success
C22_ComposedScriptsAreStrict ==
  ( Handed /\ operation_name # PythonSetup ) =>
    /\ StrictMode(script)
    /\ command_failed => ( script_exit = "nonzero" /\ ~SuccessFlag )

\* C23: the lines the here-document transfer writes to the remote file are the lines
\* of the script: no line of a script the executor accepts is the terminator
\* SCRIPT_EOF, so the file is never cut short inside the script body
C23_HeredocDeliversEveryLine ==
  Handed =>
    /\ \A i \in 1..Len(script) : script[i] # SCRIPT_EOF
    /\ HeredocBody(script) = script
    /\ Exists(script_name) => files[script_name] # "cut"

\* what holds: the scripts built from the catalogs and setup_python are delivered whole
C23_CatalogScriptsDeliveredWhole ==
  ( Handed /\ operation_name # CustomCommands ) =>
    /\ HeredocBody(script) = script
    /\ Exists(script_name) => files[script_name] # "cut"

\* the Execute call of the operation was cut off by a KeyboardInterrupt
ExecuteInterrupted == \E e \in CallsOf("Execute") : calls[e].ended = "interrupted"

\* C24: when the operation is cancelled (KeyboardInterrupt) during the Execute call,
\* the remote cleanup command is attempted exactly once, with its own timeout and not
\* the 600-second one, and then the cancellation reaches the menu handler: the
\* executor returns no value, the operation is never blocked, and the handler prints
\* its cancellation line
C24_CancelRunsCleanupThenPropagates ==
  ( exe = "cli" /\ ExecuteInterrupted ) =>
    /\ pc \in { "cleanup", "cancelled" }
    /\ cli_ret = "None" /\ outcome = "none"
    /\ pc = "cleanup" => CallsOf("Cleanup") = { }
    /\ pc = "cancelled" =>
         /\ Cardinality(CallsOf("Cleanup")) = 1
         /\ \A c \in CallsOf("Cleanup") :
              /\ calls[c].timeout = CleanupTimeout
              /\ calls[c].timeout # ExecTimeout
              /\ \A e \in CallsOf("Execute") : e < c
         /\ console[Len(console)] = OperationCancelled

C24_Witness ==
  /\ exe = "cli" /\ ExecuteInterrupted /\ pc = "cancelled"
  /\ \E c \in CallsOf("Cleanup") : calls[c].ended = "timeout"

\* every identifier of request.languages is in LANGUAGE_SCRIPTS
AllRegistered == \A i \in DOMAIN request.languages : Registered(request.languages[i])

\* a 'running' update with progress 100 has been sent
RunningAtFull ==
  \E i \in DOMAIN progress_sent :
    IsRunning(progress_sent[i]) /\ progress_sent[i].progress = << "100" >>

\* setup_languages is about to issue its first remote-shell command
BeforeFirstCall == exe = "web" /\ pc = "transfer" /\ calls = << >>

\* a step that sends a 'running' update is a step of the composition: no remote-shell
\* command of the operation has been issued when it is sent
RunningOnlyWhileComposing ==
  ( exe = "web" /\ Len(SelectSeq(progress_sent', IsRunning))
                    > Len(SelectSeq(progress_sent, IsRunning)) ) =>
    /\ calls' = << >>
    /\ pc \in { "compose_lang", "compose_aliases" }

IsFinal(u) == u.status \in { "completed", "failed", "error" }

Finals == { i \in DOMAIN progress_sent : IsFinal(progress_sent[i]) }

\* the updates of a setup_languages operation up to now: 'started' with progress 0
\* first and only first, at most one closing update, nothing after it
StartedFirstFinalLast ==
  /\ progress_sent # << >>
  /\ progress_sent[1].status = "started" /\ progress_sent[1].progress = << "0" >>
  /\ \A i \in DOMAIN progress_sent : progress_sent[i].status = "started" => i = 1
  /\ Cardinality(Finals) <= 1
  /\ \A i \in Finals :
       /\ i = Len(progress_sent)
       /\ progress_sent[i].status = "completed" => progress_sent[i].progress = << "100" >>

\* C26: every setup_languages invocation sends 'started' with progress 0 before any
\* other notification and ends with exactly one final notification ('completed' with
\* progress 100, 'failed' or an error), after which no 'running' one is sent: an
\* invocation that makes no further step has sent its final notification.
C26_EveryInvocationEndsWithOneFinal ==
  ( exe = "web" /\ pc # "idle" ) =>
    /\ StartedFirstFinalLast
    /\ pc \in { "done", "blocked" } => Cardinality(Finals) = 1

\* what holds: the invocations that return have sent exactly one final notification,
\* as their last one
C26_ReturnedInvocationEndsWithOneFinal ==
  ( exe = "web" /\ pc # "idle" ) =>
    /\ StartedFirstFinalLast
    /\ pc = "done" => Cardinality(Finals) = 1

\* C27: the local temporary script file created at the start of
\* execute_script_in_codespace is deleted before the function returns, on every exit
\* path: transfer failure, verify failure, execution failure, timeout, exception and
\* success.
C27_TempScriptDeletedOnEveryReturn ==
  ( exe = "cli" /\ pc = "done" ) => temp_script = "deleted"

\* what holds: the file is deleted exactly on the paths where the Execute call returned
\* a result, whatever its exit code
C27_TempScriptDeletedAfterExecuteReturns ==
  ( exe = "cli" /\ pc = "done" ) =>
    ( temp_script = "deleted" <=> outcome \in { "Completed", "ExecutionFailed" } )

\* the response reports success
SuccessResponse == exe = "web" /\ pc = "done" /\ response.status = "200"

\* the language whose section the executed script holds under the given banner
SectionOf(language) ==
  \E i \in DOMAIN script : script[i] = LanguageBanner(language)

\* C28: in the success response of setup_languages every language listed in
\* languages_installed had its section in the script that was executed; an identifier
\* that is not in LANGUAGE_SCRIPTS is never reported as installed.
C28_InstalledLanguagesWereInScript ==
  SuccessResponse =>
    \A i \in DOMAIN response.languages_installed :
      /\ Registered(response.languages_installed[i])
      /\ SectionOf(response.languages_installed[i])

\* what holds: the registered identifiers of languages_installed had their section in
\* the script, and languages_installed is request.languages as received
C28_RegisteredInstalledWereInScript ==
  SuccessResponse =>
    /\ response.languages_installed = request.languages
    /\ \A i \in DOMAIN response.languages_installed :
         Registered(response.languages_installed[i])
           => SectionOf(response.languages_installed[i])

\* the progress value of the last update sent
LastProgress == progress_sent[Len(progress_sent)].progress

\* C29: in setup_languages the division by total_steps is evaluated only when
\* total_steps >= 1, whatever the languages list (empty and all-unknown ones included)
\* and the two flags, and every progress value computed lies in 0..100: a step that
\* counts a fragment, the only place the division is evaluated, is taken with
\* total_steps >= 1 and current_step <= total_steps, and sends a value in 0..100.
C29_ProgressDivisionGuardedAndInRange ==
  [][ ( exe = "web" /\ current_step' > current_step ) =>
        /\ total_steps >= 1
        /\ total_steps = TotalSteps(request)
        /\ current_step' <= total_steps
        /\ Progress(current_step', total_steps) \in 0..100
        /\ LastProgress' = << ToString(Progress(current_step', total_steps)) >> ]_vars

\* C29 witness: the list holds only an unknown identifier and the aliases flag is set;
\* the one step counted is reported as 50 of total_steps = 2
C29_Witness ==
  /\ exe = "web" /\ pc = "compose_final"
  /\ request.languages = << "cobol" >> /\ request.include_aliases
  /\ ~request.include_ai_agents
  /\ current_step = 1 /\ total_steps = 2
  /\ LastProgress = << "50" >>

(* ------------------------ WebSocketManager claims ---------------------- *)

\* the observers a call of broadcast tried to send to, by how the send ended
SendsTo(b, w, ok) == { i \in DOMAIN b.log : b.log[i].to = w /\ b.log[i].ok = ok }

Failed(b) == { w \in Sockets : SendsTo(b, w, FALSE) # { } }

Succeeded(b) == { w \in Sockets : SendsTo(b, w, TRUE) # { } }

\* the call of broadcast of task t returns in this step
Returns(t) == broadcasts[t].pc = "iter" /\ broadcasts'[t].pc = "returned"

\* C13: broadcast never raises when a send fails; on its return every observer
\* whose send failed is gone from active_connections and from connection_data, every
\* observer whose send succeeded is still registered if it was before the cleanup, and
\* a failed send does not stop the loop: when no other task removed an element during
\* the loop, every observer of the list was sent to, the ones after a failure included.
C13_BroadcastSurvivesFailedSends ==
  [][ \A t \in Tasks :
        LET b == broadcasts[t]
            m == b.self
        IN  /\ broadcasts'[t].pc \in { "idle", "iter", "returned" }
            /\ Returns(t) =>
                 /\ \A w \in Failed(b) :
                      /\ ~InList(active_connections'[m], w)
                      /\ w \notin connection_data'[m]
                 /\ \A w \in Succeeded(b) \ Failed(b) :
                      /\ InList(active_connections[m], w) => InList(active_connections'[m], w)
                      /\ w \in connection_data[m] => w \in connection_data'[m]
                 /\ ~b.shrunk =>
                      \A i \in DOMAIN b.start :
                        Cardinality(SendsTo(b, b.start[i], TRUE)
                                    \cup SendsTo(b, b.start[i], FALSE)) = 1
      ]_vars

\* a broadcast returned whose first send failed and whose second send was delivered
C13_Witness ==
  \E t \in Tasks :
    LET b == broadcasts[t]
    IN  /\ b.pc = "returned" /\ Len(b.log) = 2
        /\ ~b.log[1].ok /\ b.log[2].ok
        /\ active_connections[b.self] = << b.log[2].to >>
        /\ connection_data[b.self] = { b.log[2].to }

\* C14: with broadcasts, connects and disconnects interleaved at the awaits of
\* broadcast, an observer that is in the list from the start of a broadcast to its
\* return, with its peer alive, gets the message of that broadcast exactly once.
C14_ConnectedObserverGetsEachBroadcastOnce ==
  \A t \in Tasks :
    LET b == broadcasts[t]
    IN  b.pc = "returned" =>
          \A w \in Sockets :
            ( /\ InList(b.start, w)
              /\ InList(active_connections[b.self], w)
              /\ w \notin closed )
            => Cardinality(SendsTo(b, w, TRUE)) = 1

\* C14, the part that holds: no observer gets the message of one broadcast twice
C14_NeverTwice ==
  \A t \in Tasks, w \in Sockets : Cardinality(SendsTo(broadcasts[t], w, TRUE)) <= 1

\* C15: every notification a setup operation sends through its websocket_manager
\* reaches every observer that is connected through /ws at that time.
C15_SetupUpdatesReachObservers ==
  \A t \in Tasks :
    LET b == broadcasts[t]
    IN  ( b.pc = "returned" /\ b.self = SetupManager ) =>
          \A w \in Sockets :
            ( /\ InList(b.observers, w)
              /\ InList(active_connections[EndpointManager], w)
              /\ w \notin closed )
            => Cardinality(SendsTo(b, w, TRUE)) = 1

\* the websockets a list holds
ElementsOf(list) == { list[i] : i \in DOMAIN list }

\* C30: with each websocket connected at most once, at every point where control is
\* yielded the websockets of active_connections are the keys of connection_data, and
\* active_connections holds no websocket twice, in every instance and whatever the
\* interleaving of connect, disconnect, send_personal_message and broadcast.
C30_ActiveConnectionsMatchConnectionData ==
  exe = "ws" =>
    \A m \in Managers :
      /\ ElementsOf(active_connections[m]) = connection_data[m]
      /\ \A i, j \in DOMAIN active_connections[m] :
           active_connections[m][i] = active_connections[m][j] => i = j

\* C30 witness: both websockets were connected, the first was removed by the cleanup
\* loop of a broadcast after its send failed, the second is still registered
C30_Witness ==
  /\ exe = "ws"
  /\ active_connections[EndpointManager] = << "w2" >>
  /\ connection_data[EndpointManager] = { "w2" }
  /\ ws_pc["w1"] = "receive"
  /\ \E t \in Tasks : /\ broadcasts[t].pc = "returned"
                       /\ broadcasts[t].self = EndpointManager
                       /\ broadcasts[t].disconnected = << "w1" >>

====
